---- MODULE Spec2Model ----
(***************************************************************************)
(* A model of the two raycasting engines of the repository                *)
(* (src/src/main.ts and src/unnamed/part_001): map generation, the         *)
(* keyboard handlers that move and rotate the player, and render().        *)
(*                                                                         *)
(* Numbers.  The code computes in IEEE doubles; the model computes in      *)
(* exact rationals, each kept as an integer numerator over a denominator   *)
(* that is named here:                                                     *)
(*   - a position coordinate is an integer count of 1/PosDen cells;        *)
(*   - direction components are integers over player.den, camera-plane     *)
(*     components are integers over PlaneDen * player.den;                 *)
(*   - a Math.random() draw is an integer over RandDen.                    *)
(* Math.cos(rotSpeed) and Math.sin(rotSpeed) are irrational; the model     *)
(* rotates by the angle whose cosine is RotC/RotR and sine RotS/RotR, a    *)
(* rational point of the unit circle (RotC^2 + RotS^2 = RotR^2).           *)
(* Division by zero gives an infinity, as in the code.                     *)
(***************************************************************************)
EXTENDS Integers, Sequences, FiniteSets, TLC

VARIABLES
    engine,     \* which of the two engines runs: "main" (main.ts) or "part1" (part_001)
    pc,         \* position of the constructor / of the running engine
    stream,     \* the draws Math.random() returns, repeated
    rnd,        \* number of draws consumed so far
    iter,       \* loop counter of the generator step in progress
    mapWidth,   \* this.mapWidth
    mapHeight,  \* this.mapHeight
    worldMap,   \* this.worldMap (during generation: the local map)
    player,     \* this.player: x, y, dirX, dirY, planeX, planeY (and den, see above), weapon
    keys,       \* the keys object of setupInput: the set of keys whose entry is true
    thrown,     \* TRUE once a handler or render has thrown a TypeError
    events,     \* number of key events delivered so far
    last,       \* history: the key and the player record at the start of the last keydown
    automapVisible, \* this.automapVisible (part_001)
    pressed,    \* the physical keys that are down
    width,      \* this.width (screen columns)
    height,     \* this.height (screen rows)
    col,        \* the loop variable x of render
    ray,        \* history: what render computed for the column it processed last
    data,       \* imageData.data of the render in progress, one entry per pixel
    shown,      \* the image last passed to putImageData
    prevShown,  \* history: the image passed to putImageData before that
    framePose,  \* history: this.player when the frame callback in progress started
    position,   \* Pac-Man, Player.position: x and y in pixels
    direction,  \* Pac-Man, Player.direction
    nextDirection, \* Pac-Man, Player.nextDirection ("null" for null)
    mouthOpen,  \* Pac-Man, Player.mouthOpen, in tenths
    mouthDirection, \* Pac-Man, Player.mouthDirection
    pellets,    \* Pac-Man, GameMap.mapData.pellets: the cells <<x, y>> that hold a pellet
    score,      \* Pac-Man, Game.score
    gameKeys,   \* Pac-Man, Game.keys: the set of held keys
    updates     \* Pac-Man, number of Game.update calls so far

vars == <<engine, pc, stream, rnd, iter, mapWidth, mapHeight, worldMap,
          player, keys, thrown, events, last, automapVisible, pressed,
          width, height, col, ray, data, shown, prevShown, framePose,
          position, direction, nextDirection, mouthOpen, mouthDirection,
          pellets, score, gameKeys, updates>>

pacVars == <<position, direction, nextDirection, mouthOpen, mouthDirection,
             pellets, score, gameKeys, updates>>

genVars == <<engine, pc, stream, rnd, iter, mapWidth, mapHeight, worldMap>>

\* ------------------------------------------------------------------------
\* Bounds of the model
\* ------------------------------------------------------------------------

\* A run of Math.random() is a sequence of draws repeated with this period.
RandPeriod == 3

\* The direction is at most this many rotation steps away from an axis.
MaxRot == 1

\* Key events delivered in one behaviour.
MaxEvents == 3

\* Key events delivered to a pose drawn from TestPoses.
MoveEvents == 1

\* The model's screen is 2 * ScreenHalfW columns by 2 * ScreenHalfH rows
\* (the engines' screens, 1024 x 768 and 960 x 720, have even sides too).
ScreenHalfW == 2
ScreenHalfH == 4

\* Key events delivered in a behaviour that also draws frames.
FrameEvents == 2

\* Calls of Game.update (frames of the Pac-Man game) in one behaviour.
MaxUpdates == 12

\* Arrow keys the player of the Pac-Man game holds down at the same time.
MaxHeld == 1

\* Side of the square grids that render and the handlers are tried on.
TestGridSize == 4

\* The distances a column's perpendicular wall distance is compared with are
\* the multiples of 1 / DistSteps up to 4 cells.
DistSteps == 4

\* ------------------------------------------------------------------------
\* Program constants
\* ------------------------------------------------------------------------

GridSize == 32
RandDen == 1000

\* moveSpeed = 0.05 = 1 / MoveDen
MoveDen == 20
\* planeY = 0.66 = PlaneNum / PlaneDen
PlaneNum == 33
PlaneDen == 50
\* Math.cos(rotSpeed) = RotC / RotR, Math.sin(rotSpeed) = RotS / RotR
RotC == 4
RotS == 3
RotR == 5

RECURSIVE Pow(_, _)
Pow(b, n) == IF n = 0 THEN 1 ELSE b * Pow(b, n - 1)

\* The greatest denominator of a direction, and the unit of a position.
MaxDen == Pow(RotR, MaxRot)
PosDen == MoveDen * MaxDen

\* The draws a stream is made of, over RandDen: 0 is the least value of
\* Math.random(), 999/1000 stands for the greatest, and 480/1000 is the draw
\* that Math.floor(r * 28) + 2 maps to 15.
RandVals == {0, 480, 999}

Engines == {"main", "part1"}

RECURSIVE SeqsOf(_, _)
SeqsOf(S, n) ==
    IF n = 0 THEN {<<>>}
    ELSE {Append(s, v) : s \in SeqsOf(S, n - 1), v \in S}

Streams == SeqsOf(RandVals, RandPeriod)

\* Math.random(): the i-th draw (i from 0) of stream s.
Random(s, i) == s[(i % Len(s)) + 1]

\* Math.floor(Math.random() * n) for the draw r.
FloorRandom(r, n) == (r * n) \div RandDen

\* ------------------------------------------------------------------------
\* Map generation.  A generator state is [map, rnd]: the grid built so far
\* and the number of draws consumed.
\* ------------------------------------------------------------------------

EmptyMap(w, h) == [y \in 0..(h - 1) |-> [x \in 0..(w - 1) |-> 0]]

SetCell(map, y, x, v) == [map EXCEPT ![y][x] = v]

\* OuterWalls with the bottom wall forgotten.
OuterWallsNoBottom(map, w, h) ==
    [y \in 0..(h - 1) |-> [x \in 0..(w - 1) |->
        IF y = 0 \/ x = 0 \/ x = w - 1 THEN 1 ELSE map[y][x]]]

\* for x: map[0][x] = 1; map[mapHeight-1][x] = 1;
\* for y: map[y][0] = 1; map[y][mapWidth-1] = 1
OuterWalls(map, w, h) ==
    [y \in 0..(h - 1) |-> [x \in 0..(w - 1) |->
        IF y = 0 \/ y = h - 1 \/ x = 0 \/ x = w - 1 THEN 1 ELSE map[y][x]]]

\* The inner loop of a room, for x in [x, x1) of row y:
\*   if (Math.random() > thr) map[y][x] = tex, where tex = 0 stands for
\*   Math.floor(Math.random() * 4) + 1 (a second draw).
RECURSIVE RoomRow(_, _, _, _, _, _, _)
RoomRow(st, s, x1, thr, tex, x, y) ==
    IF x >= x1 THEN st
    ELSE IF Random(s, st.rnd) * 10 > thr * RandDen
         THEN IF tex = 0
              THEN RoomRow([map |-> SetCell(st.map, y, x, FloorRandom(Random(s, st.rnd + 1), 4) + 1),
                            rnd |-> st.rnd + 2],
                           s, x1, thr, tex, x + 1, y)
              ELSE RoomRow([map |-> SetCell(st.map, y, x, tex), rnd |-> st.rnd + 1],
                           s, x1, thr, tex, x + 1, y)
         ELSE RoomRow([map |-> st.map, rnd |-> st.rnd + 1],
                      s, x1, thr, tex, x + 1, y)

\* The double loop of a room: for y in [y, y1), for x in [x0, x1).
RECURSIVE RandomRoom(_, _, _, _, _, _, _, _)
RandomRoom(st, s, x0, x1, y1, thr, tex, y) ==
    IF y >= y1 THEN st
    ELSE RandomRoom(CHOOSE r \in {RoomRow(st, s, x1, thr, tex, x0, y)} : TRUE,
                    s, x0, x1, y1, thr, tex, y + 1)

\* main.ts rooms 1..4: the bounds and the threshold (in tenths) of each.
MainRoom(st, s, n) ==
    CASE n = 1 -> RandomRoom(st, s, 3, 8, 8, 3, 0, 3)
      [] n = 2 -> RandomRoom(st, s, 20, 28, 8, 4, 0, 3)
      [] n = 3 -> RandomRoom(st, s, 3, 8, 28, 4, 0, 20)
      [] n = 4 -> RandomRoom(st, s, 20, 28, 28, 2, 0, 20)

\* main.ts corridors: map[8][x] = map[20][x] = 1 for x in [8, 20);
\* map[y][8] = map[y][20] = 1 for y in [8, 20).
MainCorridors(map) ==
    [y \in DOMAIN map |-> [x \in DOMAIN map[y] |->
        IF \/ (y \in {8, 20} /\ x >= 8 /\ x < 20)
           \/ (x \in {8, 20} /\ y >= 8 /\ y < 20)
        THEN 1 ELSE map[y][x]]]

\* main.ts fixed pillars of the big room.
MainPillars(map) ==
    SetCell(SetCell(SetCell(SetCell(map, 22, 22, 2), 22, 25, 3), 25, 22, 4), 25, 25, 5)

\* One iteration of a random pillar / decoration loop:
\*   x = floor(random * 28) + 2; y = floor(random * 28) + 2;
\*   if (map[y][x] === 0) map[y][x] = floor(random * n) + 1
RandomPillar(st, s, n) ==
    LET x == FloorRandom(Random(s, st.rnd), 28) + 2
        y == FloorRandom(Random(s, st.rnd + 1), 28) + 2
    IN  IF st.map[y][x] = 0
        THEN [map |-> SetCell(st.map, y, x, FloorRandom(Random(s, st.rnd + 2), n) + 1),
              rnd |-> st.rnd + 3]
        ELSE [map |-> st.map, rnd |-> st.rnd + 2]

\* part_001 main hall: map[y][x] = 2 where x % 3 = 0 and y % 3 = 0,
\* y in [5, 10), x in [5, 20).
Part1MainHall(map) ==
    [y \in DOMAIN map |-> [x \in DOMAIN map[y] |->
        IF y >= 5 /\ y < 10 /\ x >= 5 /\ x < 20 /\ x % 3 = 0 /\ y % 3 = 0
        THEN 2 ELSE map[y][x]]]

\* part_001 side rooms 1 and 2.
Part1Room(st, s, n) ==
    CASE n = 1 -> RandomRoom(st, s, 5, 12, 22, 3, 3, 15)
      [] n = 2 -> RandomRoom(st, s, 18, 25, 22, 3, 4, 15)

\* part_001 secret area: map[25][25] = 5, then 6 where y > 23 and x > 23,
\* y in [22, 28), x in [22, 28).
Part1Secret(map) ==
    [y \in DOMAIN map |-> [x \in DOMAIN map[y] |->
        IF y >= 22 /\ y < 28 /\ x >= 22 /\ x < 28 /\ y > 23 /\ x > 23
        THEN 6 ELSE map[y][x]]]

\* part_001 corridors: map[i][12] = map[i][17] = 1 for i in [10, 22).
Part1Corridors(map) ==
    [y \in DOMAIN map |-> [x \in DOMAIN map[y] |->
        IF y >= 10 /\ y < 22 /\ x \in {12, 17} THEN 1 ELSE map[y][x]]]

\* The number of rooms, and of random pillars / decorations, of an engine.
NumRooms(e) == IF e = "main" THEN 4 ELSE 2
NumPillars(e) == IF e = "main" THEN 10 ELSE 20
PillarTex(e) == IF e = "main" THEN 5 ELSE 4

\* The deterministic blocks of each generator, by the pc at which they run.
NextGenPc(e, p) ==
    IF e = "main"
    THEN CASE p = "fill" -> "walls" [] p = "walls" -> "rooms"
           [] p = "rooms" -> "corridors" [] p = "corridors" -> "fixed"
           [] p = "fixed" -> "pillars" [] p = "pillars" -> "run"
    ELSE CASE p = "fill" -> "walls" [] p = "walls" -> "hall"
           [] p = "hall" -> "rooms" [] p = "rooms" -> "secret"
           [] p = "secret" -> "corridors" [] p = "corridors" -> "pillars"
           [] p = "pillars" -> "run"

\* ------------------------------------------------------------------------
\* The player and the keydown handler of setupInput
\* ------------------------------------------------------------------------

gameVars == <<player, keys, thrown, events, last, automapVisible, pressed>>

renderVars == <<width, height, col, ray, data, shown, prevShown, framePose>>

\* ammo: 50
InitialAmmo == 50

\* this.player = { x: 15.5, y: 15.5, dirX: -1, dirY: 0, planeX: 0, planeY: 0.66,
\*                 ammo: 50, weapon: 0, frags: 0, ... }
\* (main.ts has no frags; no statement of main.ts reads or writes it)
InitialPlayer ==
    [x |-> (31 * PosDen) \div 2, y |-> (31 * PosDen) \div 2,
     dirX |-> -1, dirY |-> 0, planeX |-> 0, planeY |-> PlaneNum,
     den |-> 1, weapon |-> 0, ammo |-> InitialAmmo, frags |-> 0]

NoEvent == [key |-> "", p |-> InitialPlayer]

MoveKeys == {"w", "W", "s", "S", "a", "A", "d", "D"}
RotKeys == {"ArrowLeft", "ArrowRight"}

\* The keys the model presses.
Keys == {"w", "W", "s", "a", "d", "ArrowLeft", "ArrowRight", "2"}

\* The physical key that reports e.key = k: a letter key reports its lower
\* case or its upper case name, depending on Shift and Caps Lock at the time
\* of the event; every other key has one name.
Physical(k) ==
    CASE k = "W" -> "w"
      [] k = "S" -> "s"
      [] k = "A" -> "a"
      [] k = "D" -> "d"
      [] OTHER -> k

\* Math.floor of a coordinate.
Floor(v) == v \div PosDen

\* c * moveSpeed for a direction component c (over p.den), in position units.
Step(p, c) == (c * PosDen) \div (MoveDen * p.den)

\* An exact rational is kept in lowest terms of RotR: dividing the four
\* numerators and den by RotR changes no value.
RECURSIVE Canon(_)
Canon(p) ==
    IF /\ p.den % RotR = 0
       /\ p.dirX % RotR = 0 /\ p.dirY % RotR = 0
       /\ p.planeX % RotR = 0 /\ p.planeY % RotR = 0
    THEN Canon([p EXCEPT !.den = p.den \div RotR,
                         !.dirX = p.dirX \div RotR, !.dirY = p.dirY \div RotR,
                         !.planeX = p.planeX \div RotR, !.planeY = p.planeY \div RotR])
    ELSE p

\* Rotate that turns the direction and leaves the camera plane as it was.
RotateDirOnly(p, sgn) ==
    Canon([p EXCEPT !.den = p.den * RotR,
                    !.dirX = p.dirX * RotC - p.dirY * (sgn * RotS),
                    !.dirY = p.dirX * (sgn * RotS) + p.dirY * RotC,
                    !.planeX = p.planeX * RotR,
                    !.planeY = p.planeY * RotR])

\* Rotate whose planeY drops the factor Math.cos(rotSpeed).
RotateNoCos(p, sgn) ==
    Canon([p EXCEPT !.den = p.den * RotR,
                    !.dirX = p.dirX * RotC - p.dirY * (sgn * RotS),
                    !.dirY = p.dirX * (sgn * RotS) + p.dirY * RotC,
                    !.planeX = p.planeX * RotC - p.planeY * (sgn * RotS),
                    !.planeY = p.planeX * (sgn * RotS) + p.planeY * RotR])

\* The rotation by sgn * rotSpeed (sgn = -1: ArrowLeft, sgn = 1: ArrowRight):
\*   oldDirX = dirX; dirX = dirX * cos - dirY * sin; dirY = oldDirX * sin + dirY * cos
\*   and the same for planeX, planeY; cos(-a) = cos(a), sin(-a) = -sin(a).
Rotate(p, sgn) ==
    Canon([p EXCEPT !.den = p.den * RotR,
                    !.dirX = p.dirX * RotC - p.dirY * (sgn * RotS),
                    !.dirY = p.dirX * (sgn * RotS) + p.dirY * RotC,
                    !.planeX = p.planeX * RotC - p.planeY * (sgn * RotS),
                    !.planeY = p.planeX * (sgn * RotS) + p.planeY * RotC])

\* worldMap[row] is an array; worldMap[row][col] is a number.
RowDefined(map, row) == row \in DOMAIN map
CellDefined(map, row, cl) == RowDefined(map, row) /\ cl \in DOMAIN map[row]

\* worldMap[row][col] === 0, for a defined row (an undefined cell is not 0).
CellIsZero(map, row, cl) == CellDefined(map, row, cl) /\ map[row][cl] = 0

\* TestFactor with the two engines exchanged.
TestFactorSwapped(e) == IF e = "main" THEN 1 ELSE 2

\* TestFactor that makes both tests read the cell the player stands in.
TestFactorZero(e) == 0

\* main.ts tests the cell at twice the step, part_001 the cell at the step.
TestFactor(e) == IF e = "main" THEN 2 ELSE 1

\* Move in which a blocked X also blocks Y (else-if instead of two ifs).
MoveNoSlide(h, map, sx, sy, f) ==
    LET p == h.p IN
    IF h.err THEN h
    ELSE IF ~RowDefined(map, Floor(p.y)) THEN [h EXCEPT !.err = TRUE]
    ELSE IF CellIsZero(map, Floor(p.y), Floor(p.x + f * sx))
         THEN IF ~RowDefined(map, Floor(p.y + f * sy))
              THEN [p |-> [p EXCEPT !.x = p.x + sx], err |-> TRUE]
              ELSE [p |-> [p EXCEPT !.x = p.x + sx,
                                    !.y = IF CellIsZero(map, Floor(p.y + f * sy), Floor(p.x + sx))
                                          THEN p.y + sy ELSE p.y],
                    err |-> FALSE]
         ELSE h

\* One movement block of the handler, for the displacement (sx, sy):
\*   if (worldMap[floor(y)][floor(x + f*sx)] === 0) x += sx;
\*   if (worldMap[floor(y + f*sy)][floor(x)] === 0) y += sy;
\* Reading a column of an undefined row throws a TypeError and ends the
\* handler with what was assigned so far.
Move(h, map, sx, sy, f) ==
    LET p == h.p IN
    IF h.err THEN h
    ELSE IF ~RowDefined(map, Floor(p.y)) THEN [h EXCEPT !.err = TRUE]
    ELSE LET x1 == IF CellIsZero(map, Floor(p.y), Floor(p.x + f * sx))
                   THEN p.x + sx ELSE p.x
         IN  IF ~RowDefined(map, Floor(p.y + f * sy))
             THEN [p |-> [p EXCEPT !.x = x1], err |-> TRUE]
             ELSE [p |-> [p EXCEPT !.x = x1,
                                   !.y = IF CellIsZero(map, Floor(p.y + f * sy), Floor(x1))
                                         THEN p.y + sy ELSE p.y],
                   err |-> FALSE]

\* The displacement of each movement key, from the pose at the start of its block.
MoveDX(p, k) ==
    CASE k \in {"w", "W"} -> Step(p, p.dirX)
      [] k \in {"s", "S"} -> -Step(p, p.dirX)
      [] k \in {"a", "A"} -> Step(p, -p.dirY)
      [] k \in {"d", "D"} -> Step(p, p.dirY)

MoveDY(p, k) ==
    CASE k \in {"w", "W"} -> Step(p, p.dirY)
      [] k \in {"s", "S"} -> -Step(p, p.dirY)
      [] k \in {"a", "A"} -> Step(p, p.dirX)
      [] k \in {"d", "D"} -> Step(p, -p.dirX)

\* if (keys[k1] || keys[k2]) { movement block }
MoveIf(h, map, held, k1, k2, e) ==
    IF k1 \in held \/ k2 \in held
    THEN Move(h, map, MoveDX(h.p, k1), MoveDY(h.p, k1), TestFactor(e))
    ELSE h

\* The player between the two ifs of the movement block of k1, k2, entered
\* with h: after the X test and update, before the Y test.
AfterX(h, map, held, k1, k2, e) ==
    LET p == h.p
        sx == MoveDX(p, k1)
    IN  IF (k1 \in held \/ k2 \in held) /\ ~h.err /\ RowDefined(map, Floor(p.y))
           /\ CellIsZero(map, Floor(p.y), Floor(p.x + TestFactor(e) * sx))
        THEN [p EXCEPT !.x = p.x + sx]
        ELSE p

\* The players between the two ifs of the four movement blocks of one run of
\* the handler.
XUpdates(p, map, held, e) ==
    LET h0 == [p |-> p, err |-> FALSE]
        h1 == MoveIf(h0, map, held, "w", "W", e)
        h2 == MoveIf(h1, map, held, "s", "S", e)
        h3 == MoveIf(h2, map, held, "a", "A", e)
    IN  {AfterX(h0, map, held, "w", "W", e), AfterX(h1, map, held, "s", "S", e),
         AfterX(h2, map, held, "a", "A", e), AfterX(h3, map, held, "d", "D", e)}

\* if (keys['ArrowLeft']) { rotate by -rotSpeed }; if (keys['ArrowRight']) { rotate by rotSpeed }
RotateIf(h, held, k, sgn) ==
    IF ~h.err /\ k \in held THEN [h EXCEPT !.p = Rotate(h.p, sgn)] ELSE h

\* if (key === '1') weapon = 0; ... if (key === '4') weapon = 3
Weapon(h, key) ==
    IF h.err THEN h
    ELSE CASE key = "1" -> [h EXCEPT !.p.weapon = 0]
           [] key = "2" -> [h EXCEPT !.p.weapon = 1]
           [] key = "3" -> [h EXCEPT !.p.weapon = 2]
           [] key = "4" -> [h EXCEPT !.p.weapon = 3]
           [] OTHER -> h

\* The body of the keydown listener after keys[key] = true, in source order.
Handler(p, map, held, key, e) ==
    Weapon(
      RotateIf(
        RotateIf(
          MoveIf(MoveIf(MoveIf(MoveIf([p |-> p, err |-> FALSE],
                                      map, held, "w", "W", e),
                               map, held, "s", "S", e),
                        map, held, "a", "A", e),
                 map, held, "d", "D", e),
          held, "ArrowLeft", -1),
        held, "ArrowRight", 1),
      key)

\* part_001, if (key === 'Tab') this.automapVisible = !this.automapVisible;
\* main.ts has no such statement.
Automap(visible, h, key, e) ==
    IF ~h.err /\ e = "part1" /\ key = "Tab" THEN ~visible ELSE visible

\* part_001, if (key === 'Control') this.fire(), where fire() is
\*   if (now - this.lastShot > 200 && this.player.ammo > 0) { ammo--; frags++; ... }
\* elapsed is the outcome of now - this.lastShot > 200, evaluated only when
\* fire() is called.  main.ts has no fire().
Fire(h, key, e, elapsed) ==
    IF ~h.err /\ e = "part1" /\ key = "Control" /\ elapsed /\ h.p.ammo > 0
    THEN [h EXCEPT !.p.ammo = h.p.ammo - 1, !.p.frags = h.p.frags + 1]
    ELSE h

\* ------------------------------------------------------------------------
\* render(): one screen column
\* ------------------------------------------------------------------------

\* texWidth = texHeight = 64; this.textures.length = 8
TexSize == 64
NumTextures == 8

\* floorColors / ceilingColors of part_001; floor and ceiling bytes of main.ts
FloorColors(e) == IF e = "main" THEN <<4202512>> ELSE <<4202512, 4860442, 3480078>>
CeilingColors(e) == IF e = "main" THEN <<2101256>> ELSE <<2101264, 2430229, 1707534>>

Abs(n) == IF n < 0 THEN -n ELSE n
Sgn(n) == IF n < 0 THEN -1 ELSE IF n > 0 THEN 1 ELSE 0

\* A pixel: alpha a and colour c.  createImageData gives transparent black.
BlankPixel == [a |-> 0, c |-> 0]
BlankImage(W, H) == [i \in 0..(W * H - 1) |-> BlankPixel]
NoImage == <<>>

\* The colour a wall pixel gets: the texel (texX, texY) of texture tex,
\* darkened when side = 1.  The model keeps which texel it is.
Texel(tex, texX, texY, side) ==
    1000000 + ((tex * TexSize + texX) * TexSize + texY) * 2 + side

\* rayDir = dir + plane * cameraX with cameraX = 2 * x / width - 1, as a
\* numerator over PlaneDen * width * p.den.
RayDirX(p, x, W) == PlaneDen * W * p.dirX + p.planeX * (2 * x - W)
RayDirY(p, x, W) == PlaneDen * W * p.dirY + p.planeY * (2 * x - W)

\* sideDistX < sideDistY, where sideDist = n / PosDen * |1 / rayDir| and
\* 1 / 0 is Infinity (Infinity < Infinity is false).
SideDistLess(nX, rx, nY, ry) ==
    IF rx = 0 THEN FALSE
    ELSE IF ry = 0 THEN TRUE
    ELSE nX * Abs(ry) < nY * Abs(rx)

\* InGrid that forgets the lower bounds.
InGridNoLow(mx, my, w, h) == mx < 2 * w /\ my < 2 * h

\* mapX >= 0 && mapX < mapWidth && mapY >= 0 && mapY < mapHeight
InGrid(mx, my, w, h) == mx >= 0 /\ mx < w /\ my >= 0 /\ my < h

\* The state of the DDA before its loop.
DDAStart(p, rx, ry) ==
    LET mx == Floor(p.x)
        my == Floor(p.y)
    IN  [mapX |-> mx, mapY |-> my,
         stepX |-> IF rx < 0 THEN -1 ELSE 1,
         stepY |-> IF ry < 0 THEN -1 ELSE 1,
         nX |-> IF rx < 0 THEN p.x - mx * PosDen ELSE (mx + 1) * PosDen - p.x,
         nY |-> IF ry < 0 THEN p.y - my * PosDen ELSE (my + 1) * PosDen - p.y,
         side |-> 0, hit |-> FALSE, steps |-> 0, outside |-> FALSE]

\* DDAStep for which a wall of value 1 is no hit (> 1 instead of > 0).
DDAStepOverOne(d, map, rx, ry, w, h) ==
    LET s == IF SideDistLess(d.nX, rx, d.nY, ry)
             THEN [d EXCEPT !.nX = d.nX + PosDen, !.mapX = d.mapX + d.stepX, !.side = 0]
             ELSE [d EXCEPT !.nY = d.nY + PosDen, !.mapY = d.mapY + d.stepY, !.side = 1]
    IN  IF InGrid(s.mapX, s.mapY, w, h)
        THEN [s EXCEPT !.steps = d.steps + 1,
                       !.hit = CellDefined(map, s.mapY, s.mapX) /\ map[s.mapY][s.mapX] > 1]
        ELSE [s EXCEPT !.steps = d.steps + 1, !.hit = TRUE, !.outside = TRUE]

\* One pass of the body of while (!hit).
DDAStep(d, map, rx, ry, w, h) ==
    LET s == IF SideDistLess(d.nX, rx, d.nY, ry)
             THEN [d EXCEPT !.nX = d.nX + PosDen, !.mapX = d.mapX + d.stepX, !.side = 0]
             ELSE [d EXCEPT !.nY = d.nY + PosDen, !.mapY = d.mapY + d.stepY, !.side = 1]
    IN  IF InGrid(s.mapX, s.mapY, w, h)
        THEN [s EXCEPT !.steps = d.steps + 1,
                       !.hit = CellDefined(map, s.mapY, s.mapX) /\ map[s.mapY][s.mapX] > 0]
        ELSE [s EXCEPT !.steps = d.steps + 1, !.hit = TRUE, !.outside = TRUE]

\* while (!hit) { ... }; the model gives up after fuel passes.
RECURSIVE DDALoop(_, _, _, _, _, _, _)
DDALoop(d, map, rx, ry, w, h, fuel) ==
    IF d.hit \/ fuel = 0 THEN d
    ELSE DDALoop(DDAStep(d, map, rx, ry, w, h), map, rx, ry, w, h, fuel - 1)

DDAFuel(w, h) == 4 * (w + h)

\* PerpWallDist without the term (1 - step) / 2.
PerpNoOffset(p, d, rx, ry, W) ==
    LET pn == IF d.side = 0 THEN d.mapX * PosDen - p.x ELSE d.mapY * PosDen - p.y
        r == IF d.side = 0 THEN rx ELSE ry
    IN  [num |-> pn * (PlaneDen * W * p.den) * Sgn(r),
         den |-> PosDen * Abs(r),
         neg |-> r < 0]

\* perpWallDist = (mapX - x + (1 - stepX) / 2) / rayDirX (side 0; with Y for
\* side 1), as num / den with den >= 0; neg says the divisor was negative
\* (a zero quotient is then -0).
PerpWallDist(p, d, rx, ry, W) ==
    LET pn == IF d.side = 0
              THEN d.mapX * PosDen - p.x + (PosDen * (1 - d.stepX)) \div 2
              ELSE d.mapY * PosDen - p.y + (PosDen * (1 - d.stepY)) \div 2
        r == IF d.side = 0 THEN rx ELSE ry
    IN  [num |-> pn * (PlaneDen * W * p.den) * Sgn(r),
         den |-> PosDen * Abs(r),
         neg |-> r < 0]

\* LineHeight that multiplies by the distance instead of dividing by it.
LineHeightTimes(perp, H) ==
    IF perp.num = 0
    THEN [inf |-> IF perp.neg THEN -1 ELSE 1, v |-> 0]
    ELSE [inf |-> 0, v |-> (H * perp.num) \div perp.den]

\* lineHeight = Math.floor(height / perpWallDist): inf = 0 and the value v,
\* or inf = 1 / -1 for Infinity / -Infinity (height / 0, height / -0).
LineHeight(perp, H) ==
    IF perp.num = 0
    THEN [inf |-> IF perp.neg THEN -1 ELSE 1, v |-> 0]
    ELSE [inf |-> 0, v |-> (H * perp.den) \div perp.num]

\* drawStart and drawEnd, in half rows (twice their value):
\*   drawStart = -lineHeight / 2 + height / 2; if (drawStart < 0) drawStart = 0
\*   drawEnd = lineHeight / 2 + height / 2; if (drawEnd >= height) drawEnd = height - 1
DrawStart2(L, H) == IF H - L < 0 THEN 0 ELSE H - L
DrawEnd2(L, H) == IF L + H >= 2 * H THEN 2 * (H - 1) ELSE L + H

\* y + perpWallDist * rayDirY (side 0) or x + perpWallDist * rayDirX (side 1),
\* as num / den with den > 0.
HitCoord(p, d, rx, ry) ==
    LET pn == IF d.side = 0
              THEN d.mapX * PosDen - p.x + (PosDen * (1 - d.stepX)) \div 2
              ELSE d.mapY * PosDen - p.y + (PosDen * (1 - d.stepY)) \div 2
        r == IF d.side = 0 THEN rx ELSE ry
        o == IF d.side = 0 THEN ry ELSE rx
        c == IF d.side = 0 THEN p.y ELSE p.x
    IN  [num |-> (c * r + pn * o) * Sgn(r), den |-> PosDen * Abs(r)]

\* WallX without wallX -= Math.floor(wallX).
WallXWhole(p, d, rx, ry) == HitCoord(p, d, rx, ry)

\* wallX after wallX -= Math.floor(wallX), as num / den.
WallX(p, d, rx, ry) ==
    LET c == HitCoord(p, d, rx, ry)
    IN  [num |-> c.num % c.den, den |-> c.den]

\* texX = Math.floor(wallX * texture.width)
TexX(p, d, rx, ry) ==
    LET wx == WallX(p, d, rx, ry)
    IN  (wx.num * TexSize) \div wx.den

\* texY = Math.floor((d * texture.height) / lineHeight / 256) with
\* d = y * 256 - height * 128 + lineHeight * 128, for the half row y2.
TexY(y2, L, H) == ((y2 - H + L) * (TexSize \div 2)) \div L

\* (y * width + x), the pixel that pixelIndex = (y * width + x) * 4 addresses.
PixelOf(y2, x, W) == y2 * (W \div 2) + x

\* The rows (in half rows) visited by the three loops of a column.
WallRows(ds2, de2) == {y2 \in ds2..(de2 - 1) : (y2 - ds2) % 2 = 0}
FloorRows(de2, H) == {y2 \in (de2 + 2)..(2 * H - 1) : (y2 - de2) % 2 = 0}
CeilingRows(ds2) == {y2 \in 0..(ds2 - 1) : y2 % 2 = 0}

\* The rest of a column once the DDA has ended in state d.
ColumnAfter(p, map, W, H, x, e, s, r0, rx, ry, d) ==
    LET perp == PerpWallDist(p, d, rx, ry, W)
        lh == LineHeight(perp, H)
        ds2 == IF lh.inf = 0 THEN DrawStart2(lh.v, H) ELSE 0
        de2 == IF lh.inf = 0 THEN DrawEnd2(lh.v, H) ELSE 2 * (H - 1)
        threw == ~CellDefined(map, d.mapY, d.mapX)
        tex == IF threw THEN 0 ELSE (map[d.mapY][d.mapX] - 1) % NumTextures
        tx == TexX(p, d, rx, ry)
        fl == FloorColors(e)[FloorRandom(Random(s, r0), Len(FloorColors(e))) + 1]
        ce == CeilingColors(e)[FloorRandom(Random(s, r0 + 1), Len(CeilingColors(e))) + 1]
        wall == IF lh.inf # 0 \/ lh.v = 0 THEN {} ELSE WallRows(ds2, de2)
        floor == IF lh.inf # 0 THEN {} ELSE FloorRows(de2, H)
        ceil == IF lh.inf # 0 THEN {} ELSE CeilingRows(ds2)
        inside(y2) == PixelOf(y2, x, W) >= 0 /\ PixelOf(y2, x, W) < W * H
    IN  [x |-> x, rayX |-> rx, rayY |-> ry,
         mapX |-> d.mapX, mapY |-> d.mapY, side |-> d.side,
         steps |-> d.steps, ended |-> d.hit, outside |-> d.outside,
         perp |-> perp, lineHeight |-> lh, drawStart2 |-> ds2, drawEnd2 |-> de2,
         wallX |-> WallX(p, d, rx, ry),
         texX |-> tx,
         threw |-> threw,
         hung |-> ~threw /\ lh.inf = -1,
         sideNaN |-> \/ (rx = 0 /\ DDAStart(p, rx, ry).nX = 0)
                     \/ (ry = 0 /\ DDAStart(p, rx, ry).nY = 0),
         invalid |-> ~threw /\ (\/ lh.inf = -1
                                \/ \E y2 \in wall \cup floor \cup ceil : ~inside(y2)),
         rnd |-> IF threw \/ e = "main" THEN r0 ELSE (r0 + 2) % Len(s),
         wr |-> IF threw THEN {}
                ELSE {[i |-> PixelOf(y2, x, W),
                       px |-> [a |-> 255, c |-> Texel(tex, tx, TexY(y2, lh.v, H), d.side)]] :
                         y2 \in {r \in wall : inside(r)}}
                     \cup {[i |-> PixelOf(y2, x, W), px |-> [a |-> 255, c |-> fl]] :
                         y2 \in {r \in floor : inside(r)}}
                     \cup {[i |-> PixelOf(y2, x, W), px |-> [a |-> 255, c |-> ce]] :
                         y2 \in {r \in ceil : inside(r)}}]

\* What render does for screen column x: the DDA, the wall strip, the floor
\* and the ceiling.  threw: worldMap[mapY][mapX] or texture.width raised a
\* TypeError (the hit cell is outside the grid); hung: the floor loop starts
\* at -Infinity and never ends; sideNaN: a side distance is 0 * Infinity;
\* invalid: a write used an index that is no pixel of the image (-Infinity,
\* or outside the buffer); wr: the pixels written, each with its pixel
\* number i.
Column(p, map, w, h, W, H, x, e, s, r0) ==
    CHOOSE c \in {ColumnAfter(p, map, W, H, x, e, s, r0,
                              RayDirX(p, x, W), RayDirY(p, x, W), d) :
                    d \in {DDALoop(DDAStart(p, RayDirX(p, x, W), RayDirY(p, x, W)), map,
                                   RayDirX(p, x, W), RayDirY(p, x, W), w, h, DDAFuel(w, h))}} :
        TRUE

\* data after the writes wr of a column.
Written(img, wr) ==
    [i \in DOMAIN img |->
        IF \E u \in wr : u.i = i THEN (CHOOSE u \in wr : u.i = i).px ELSE img[i]]

\* The pistol sprite that render of part_001 draws over the frame when
\* player.weapon is 0: a grey block in the bottom rows, right of the middle of
\* the screen.  On the model's screen it is one pixel of the bottom row.
WeaponSprite(e, p, W, H) ==
    IF e = "part1" /\ p.weapon = 0 THEN {(H - 1) * W + W \div 2} ELSE {}

WithSprite(img, sprite) ==
    [i \in DOMAIN img |-> IF i \in sprite THEN [a |-> 255, c |-> 4473924] ELSE img[i]]

NoRay == [x |-> -1]

\* framePose when no frame callback is running.
NoFrame == [x |-> -1]

\* ------------------------------------------------------------------------
\* The Pac-Man game: GameMap (part_002), Player and Game (player.ts)
\* ------------------------------------------------------------------------

\* const cellSize = 20; private speed: number = 2; new Player(300, 300)
CellSize == 20
Speed == 2
StartX == 300
StartY == 300

\* for (let y = 1; y < 29; y++) for (let x = 1; x < 29; x++)
PelletLast == 28

\* this.score += 10
PelletScore == 10

\* The outer walls and the inner maze walls of createMap, in cells.
Walls ==
    << [x |-> 0, y |-> 0, width |-> 30, height |-> 1],
       [x |-> 0, y |-> 29, width |-> 30, height |-> 1],
       [x |-> 0, y |-> 1, width |-> 1, height |-> 28],
       [x |-> 29, y |-> 1, width |-> 1, height |-> 28],
       [x |-> 5, y |-> 5, width |-> 20, height |-> 2],
       [x |-> 5, y |-> 8, width |-> 2, height |-> 5],
       [x |-> 23, y |-> 8, width |-> 2, height |-> 5],
       [x |-> 10, y |-> 12, width |-> 10, height |-> 2],
       [x |-> 5, y |-> 15, width |-> 2, height |-> 5],
       [x |-> 23, y |-> 15, width |-> 2, height |-> 5],
       [x |-> 5, y |-> 22, width |-> 20, height |-> 2],
       [x |-> 12, y |-> 18, width |-> 6, height |-> 2] >>

\* isWallAt(x, y, walls): walls.some(wall => x >= wall.x && x < wall.x + wall.width && ...)
IsWallAt(x, y, walls) ==
    \E i \in DOMAIN walls :
        /\ x >= walls[i].x /\ x < walls[i].x + walls[i].width
        /\ y >= walls[i].y /\ y < walls[i].y + walls[i].height

\* The pellets createMap pushes: one for every cell of 1..28 x 1..28 that is
\* no wall.  No cell is pushed twice, so the list is kept as a set of cells.
CreatePellets ==
    {c \in (1..PelletLast) \X (1..PelletLast) : ~IsWallAt(c[1], c[2], Walls)}

\* Math.floor(x / cellSize), Math.floor(y / cellSize)
CellOf(x, y) == <<x \div CellSize, y \div CellSize>>

\* checkCollision that tests the outer walls only.
CheckCollisionOuter(x, y) ==
    IsWallAt(CellOf(x, y)[1], CellOf(x, y)[2], SubSeq(Walls, 1, 4))

\* GameMap.checkCollision(x, y)
CheckCollision(x, y) == IsWallAt(CellOf(x, y)[1], CellOf(x, y)[2], Walls)

\* removePellet that reports a pellet and leaves it in the list.
RemovePelletKept(ps, x, y) ==
    [pellets |-> ps, removed |-> CellOf(x, y) \in ps]

\* GameMap.removePellet(x, y): findIndex of the cell, splice, return true;
\* or return false.
RemovePellet(ps, x, y) ==
    IF CellOf(x, y) \in ps
    THEN [pellets |-> ps \ {CellOf(x, y)}, removed |-> TRUE]
    ELSE [pellets |-> ps, removed |-> FALSE]

Directions == {"up", "down", "left", "right"}

\* Player.moveInDirection(pos, dir)
MoveInDirection(pos, dir) ==
    CASE dir = "up" -> [pos EXCEPT !.y = pos.y - Speed]
      [] dir = "down" -> [pos EXCEPT !.y = pos.y + Speed]
      [] dir = "left" -> [pos EXCEPT !.x = pos.x - Speed]
      [] dir = "right" -> [pos EXCEPT !.x = pos.x + Speed]

\* Player.update that turns to the requested direction without testing it.
PlayerUpdateUntested(pos, dir, next) ==
    LET d == IF next # "null" THEN next ELSE dir
        newPos == MoveInDirection(pos, d)
    IN  [position |-> IF ~CheckCollision(newPos.x, newPos.y) THEN newPos ELSE pos,
         direction |-> d, nextDirection |-> "null"]

\* Player.update(map), without the mouth:
\*   if (nextDirection) { testPos = one step in nextDirection;
\*       if (!checkCollision(testPos)) { direction = nextDirection; nextDirection = null } }
\*   newPos = one step in direction; if (!checkCollision(newPos)) position = newPos
PlayerUpdate(pos, dir, next) ==
    LET turn == /\ next # "null"
                /\ ~CheckCollision(MoveInDirection(pos, next).x, MoveInDirection(pos, next).y)
        d == IF turn THEN next ELSE dir
        n == IF turn THEN "null" ELSE next
        newPos == MoveInDirection(pos, d)
    IN  [position |-> IF ~CheckCollision(newPos.x, newPos.y) THEN newPos ELSE pos,
         direction |-> d, nextDirection |-> n]

\* The mouth animation of Player.update, mouthOpen in tenths:
\*   mouthOpen += mouthDirection * 0.1;
\*   if (mouthOpen > 1) { mouthOpen = 1; mouthDirection = -1 }
\*   else if (mouthOpen < 0) { mouthOpen = 0; mouthDirection = 1 }
Mouth(m, md) ==
    LET v == m + md
    IN  IF v > 10 THEN [mouthOpen |-> 10, mouthDirection |-> -1]
        ELSE IF v < 0 THEN [mouthOpen |-> 0, mouthDirection |-> 1]
        ELSE [mouthOpen |-> v, mouthDirection |-> md]

\* Game.handleInput(): the direction it passes to setDirection, or the
\* request as it was when no arrow key is held.
HandleInput(held, next) ==
    IF "ArrowUp" \in held THEN "up"
    ELSE IF "ArrowDown" \in held THEN "down"
    ELSE IF "ArrowLeft" \in held THEN "left"
    ELSE IF "ArrowRight" \in held THEN "right"
    ELSE next

\* new Game(canvasId): new GameMap(ctx), new Player(300, 300), score 0
PacInit ==
    /\ position = [x |-> StartX, y |-> StartY]
    /\ direction = "right"
    /\ nextDirection = "null"
    /\ mouthOpen = 0
    /\ mouthDirection = 1
    /\ pellets = CreatePellets
    /\ score = 0
    /\ gameKeys = {}
    /\ updates = 0

RenderInit ==
    /\ width = 2 * ScreenHalfW
    /\ height = 2 * ScreenHalfH
    /\ col = 0
    /\ ray = NoRay
    /\ data = NoImage
    /\ shown = NoImage
    /\ prevShown = NoImage
    /\ framePose = NoFrame

\* ------------------------------------------------------------------------
\* The constructor's call of generateLargeMap / createDoomMap, block by block
\* ------------------------------------------------------------------------

GenInit ==
    /\ engine \in Engines
    /\ stream \in Streams
    /\ pc = "fill"
    /\ rnd = 0
    /\ iter = 0
    /\ mapWidth = GridSize
    /\ mapHeight = GridSize
    /\ worldMap = <<>>
    /\ player = InitialPlayer
    /\ keys = {}
    /\ thrown = FALSE
    /\ events = 0
    /\ last = NoEvent
    /\ automapVisible = FALSE
    /\ pressed = {}
    /\ RenderInit
    /\ PacInit

GenFill ==
    /\ pc = "fill"
    /\ worldMap' = EmptyMap(mapWidth, mapHeight)
    /\ pc' = NextGenPc(engine, pc)
    /\ UNCHANGED <<engine, stream, rnd, iter, mapWidth, mapHeight>>
    /\ UNCHANGED gameVars
    /\ UNCHANGED renderVars
    /\ UNCHANGED pacVars

GenOuterWalls ==
    /\ pc = "walls"
    /\ worldMap' = OuterWalls(worldMap, mapWidth, mapHeight)
    /\ pc' = NextGenPc(engine, pc)
    /\ iter' = 1
    /\ UNCHANGED <<engine, stream, rnd, mapWidth, mapHeight>>
    /\ UNCHANGED gameVars
    /\ UNCHANGED renderVars
    /\ UNCHANGED pacVars

GenMainHall ==
    /\ pc = "hall"
    /\ worldMap' = Part1MainHall(worldMap)
    /\ pc' = NextGenPc(engine, pc)
    /\ UNCHANGED <<engine, stream, rnd, iter, mapWidth, mapHeight>>
    /\ UNCHANGED gameVars
    /\ UNCHANGED renderVars
    /\ UNCHANGED pacVars

GenRoom ==
    /\ pc = "rooms"
    /\ iter <= NumRooms(engine)
    /\ LET st == IF engine = "main"
                 THEN MainRoom([map |-> worldMap, rnd |-> rnd], stream, iter)
                 ELSE Part1Room([map |-> worldMap, rnd |-> rnd], stream, iter)
       IN  /\ worldMap' = st.map
           /\ rnd' = st.rnd
    /\ iter' = iter + 1
    /\ UNCHANGED <<engine, pc, stream, mapWidth, mapHeight>>
    /\ UNCHANGED gameVars
    /\ UNCHANGED renderVars
    /\ UNCHANGED pacVars

GenRoomsDone ==
    /\ pc = "rooms"
    /\ iter > NumRooms(engine)
    /\ pc' = NextGenPc(engine, pc)
    /\ UNCHANGED <<engine, stream, rnd, iter, mapWidth, mapHeight, worldMap>>
    /\ UNCHANGED gameVars
    /\ UNCHANGED renderVars
    /\ UNCHANGED pacVars

GenSecret ==
    /\ pc = "secret"
    /\ worldMap' = Part1Secret(SetCell(worldMap, 25, 25, 5))
    /\ pc' = NextGenPc(engine, pc)
    /\ UNCHANGED <<engine, stream, rnd, iter, mapWidth, mapHeight>>
    /\ UNCHANGED gameVars
    /\ UNCHANGED renderVars
    /\ UNCHANGED pacVars

GenCorridors ==
    /\ pc = "corridors"
    /\ worldMap' = IF engine = "main" THEN MainCorridors(worldMap)
                                      ELSE Part1Corridors(worldMap)
    /\ pc' = NextGenPc(engine, pc)
    /\ iter' = 0
    /\ UNCHANGED <<engine, stream, rnd, mapWidth, mapHeight>>
    /\ UNCHANGED gameVars
    /\ UNCHANGED renderVars
    /\ UNCHANGED pacVars

GenFixedPillars ==
    /\ pc = "fixed"
    /\ worldMap' = MainPillars(worldMap)
    /\ pc' = NextGenPc(engine, pc)
    /\ UNCHANGED <<engine, stream, rnd, iter, mapWidth, mapHeight>>
    /\ UNCHANGED gameVars
    /\ UNCHANGED renderVars
    /\ UNCHANGED pacVars

GenRandomPillar ==
    /\ pc = "pillars"
    /\ iter < NumPillars(engine)
    /\ LET st == RandomPillar([map |-> worldMap, rnd |-> rnd], stream, PillarTex(engine))
       IN  /\ worldMap' = st.map
           /\ rnd' = st.rnd
    /\ iter' = iter + 1
    /\ UNCHANGED <<engine, pc, stream, mapWidth, mapHeight>>
    /\ UNCHANGED gameVars
    /\ UNCHANGED renderVars
    /\ UNCHANGED pacVars

GenReturn ==
    /\ pc = "pillars"
    /\ iter = NumPillars(engine)
    /\ pc' = NextGenPc(engine, pc)
    /\ UNCHANGED <<engine, stream, rnd, iter, mapWidth, mapHeight, worldMap>>
    /\ UNCHANGED gameVars
    /\ UNCHANGED renderVars
    /\ UNCHANGED pacVars

GenNext ==
    \/ GenFill
    \/ GenOuterWalls
    \/ GenMainHall
    \/ GenRoom
    \/ GenRoomsDone
    \/ GenSecret
    \/ GenCorridors
    \/ GenFixedPillars
    \/ GenRandomPillar
    \/ GenReturn

SpecGen == GenInit /\ [][GenNext]_vars

\* ------------------------------------------------------------------------
\* Key events of the running engine
\* ------------------------------------------------------------------------

\* StackEmpty that lets a callback start while render is on the stack.
StackEmptyOrRendering == pc \in {"run", "render"}

\* The event loop calls a listener or a frame callback only when no other
\* callback is running: the constructor has returned and render is not on the
\* stack.
StackEmpty == pc = "run"

\* window 'keydown': keys[key] = true, then the handler body.  Key repeat
\* delivers keydown again while the key stays held.
KeyDown(k) ==
    /\ StackEmpty
    /\ ~thrown
    /\ events < MaxEvents
    /\ \E elapsed \in (IF k = "Control" THEN BOOLEAN ELSE {FALSE}) :
         LET h0 == Handler(player, worldMap, keys \cup {k}, k, engine)
             h == Fire(h0, k, engine, elapsed)
         IN  /\ h.p.den <= MaxDen
             /\ player' = h.p
             /\ thrown' = h.err
             /\ automapVisible' = Automap(automapVisible, h0, k, engine)
    /\ keys' = keys \cup {k}
    /\ pressed' = pressed \cup {Physical(k)}
    /\ events' = events + 1
    /\ last' = [key |-> k, p |-> player]
    /\ UNCHANGED genVars
    /\ UNCHANGED renderVars
    /\ UNCHANGED pacVars

\* window 'keyup': keys[e.key] = false.  The event comes when a physical
\* key that is down goes up, with the name the key reports at that time.
KeyUp(k) ==
    /\ StackEmpty
    /\ ~thrown
    /\ events < MaxEvents
    /\ Physical(k) \in pressed
    /\ keys' = keys \ {k}
    /\ pressed' = pressed \ {Physical(k)}
    /\ events' = events + 1
    /\ last' = [key |-> "", p |-> player]
    /\ UNCHANGED <<player, thrown, automapVisible>>
    /\ UNCHANGED genVars
    /\ UNCHANGED renderVars
    /\ UNCHANGED pacVars

Init == GenInit

Next ==
    \/ GenNext
    \/ \E k \in Keys : KeyDown(k)
    \/ \E k \in Keys : KeyUp(k)

Spec == Init /\ [][Next]_vars

\* ------------------------------------------------------------------------
\* gameLoop: a frame is render() column by column, then putImageData
\* ------------------------------------------------------------------------

\* const imageData = this.ctx.createImageData(this.width, this.height)
RenderBegin ==
    /\ StackEmpty
    /\ ~thrown
    /\ pc' = "render"
    /\ col' = 0
    /\ data' = BlankImage(width, height)
    /\ UNCHANGED <<engine, stream, rnd, iter, mapWidth, mapHeight, worldMap>>
    /\ UNCHANGED gameVars
    /\ framePose' = player
    /\ UNCHANGED <<width, height, ray, shown, prevShown>>
    /\ UNCHANGED pacVars

\* One pass of for (let x = 0; x < this.width; x++).  A TypeError leaves
\* render and gameLoop (no further frame is requested); a loop that never
\* ends leaves the engine inside render.
RenderColumn ==
    /\ pc = "render"
    /\ col < width
    /\ ray' = Column(player, worldMap, mapWidth, mapHeight, width, height,
                     col, engine, stream, rnd)
    /\ rnd' = ray'.rnd
    /\ thrown' = ray'.threw
    /\ pc' = IF ray'.threw THEN "crashed" ELSE IF ray'.hung THEN "hung" ELSE "render"
    /\ data' = IF ray'.threw \/ ray'.hung THEN data ELSE Written(data, ray'.wr)
    /\ col' = IF ray'.threw \/ ray'.hung THEN col ELSE col + 1
    /\ UNCHANGED <<engine, stream, iter, mapWidth, mapHeight, worldMap>>
    /\ UNCHANGED <<player, keys, events, last, automapVisible, pressed>>
    /\ UNCHANGED <<width, height, shown, prevShown, framePose>>
    /\ UNCHANGED pacVars

\* RenderEnd whose map drawing marks the player's cell in worldMap.
RenderEndMarking ==
    /\ pc = "render"
    /\ col = width
    /\ pc' = "run"
    /\ data' = WithSprite(data, WeaponSprite(engine, player, width, height))
    /\ shown' = data'
    /\ prevShown' = shown
    /\ framePose' = NoFrame
    /\ worldMap' = SetCell(worldMap, Floor(player.y), Floor(player.x), 9)
    /\ UNCHANGED <<engine, stream, rnd, iter, mapWidth, mapHeight>>
    /\ UNCHANGED gameVars
    /\ UNCHANGED <<width, height, col, ray>>
    /\ UNCHANGED pacVars

\* The weapon sprite (part_001), this.ctx.putImageData(imageData, 0, 0), and
\* the rest of gameLoop: renderMinimap / renderAutomap, updateDebug /
\* updateHUD, which read worldMap and the player and write to canvases and
\* to the document only.
RenderEnd ==
    /\ pc = "render"
    /\ col = width
    /\ pc' = "run"
    /\ data' = WithSprite(data, WeaponSprite(engine, player, width, height))
    /\ shown' = data'
    /\ prevShown' = shown
    /\ framePose' = NoFrame
    /\ UNCHANGED <<engine, stream, rnd, iter, mapWidth, mapHeight, worldMap>>
    /\ UNCHANGED gameVars
    /\ UNCHANGED <<width, height, col, ray>>
    /\ UNCHANGED pacVars

\* ------------------------------------------------------------------------
\* Grids and poses that render and the handlers are tried on
\* ------------------------------------------------------------------------

\* The 2 x 2 block of cells next to the top-left corner cell, as <<row, column>>.
Block == {<<1, 1>>, <<1, 2>>, <<2, 1>>, <<2, 2>>}

IsBorder(y, x, n) == y = 0 \/ x = 0 \/ y = n - 1 \/ x = n - 1

\* A sealed n x n arena with the cells of walls set to 2.
Arena(n, walls) ==
    [y \in 0..(n - 1) |-> [x \in 0..(n - 1) |->
        IF IsBorder(y, x, n) THEN 1 ELSE IF <<y, x>> \in walls THEN 2 ELSE 0]]

\* The 3 x 3 grid whose border is wall 1 and whose centre is empty.
ScenarioGrid == Arena(3, {})

\* Sealed arenas with at most one inner wall, an arena with a gap in its
\* left wall, a grid with no wall at all, and the 3 x 3 grid.
TestGrids ==
    {Arena(TestGridSize, {})}
    \cup {Arena(TestGridSize, {c}) : c \in Block}
    \cup {SetCell(Arena(TestGridSize, {}), 1, 0, 0)}
    \cup {EmptyMap(TestGridSize, TestGridSize)}
    \cup {ScenarioGrid}

\* Fractional parts of a coordinate: on a grid line, mid-cell, between one
\* and two steps before the next grid line, less than a step before it.
TestFracs == {0, PosDen \div 2, PosDen - (7 * PosDen) \div 100, PosDen - PosDen \div 50}

\* The initial pose turned by q quarter turns, then by k rotation steps.
QuarterTurn(p) ==
    [p EXCEPT !.dirX = -p.dirY, !.dirY = p.dirX,
              !.planeX = -p.planeY, !.planeY = p.planeX]

RECURSIVE Turned(_, _, _)
Turned(p, q, k) ==
    IF q > 0 THEN Turned(QuarterTurn(p), q - 1, k)
    ELSE IF k > 0 THEN Turned(Rotate(p, 1), q, k - 1)
    ELSE p

TestCells(map) ==
    {c \in Block \cup {<<TestGridSize - 1, TestGridSize - 1>>} :
        CellIsZero(map, c[1], c[2])}

TestPoses(map) ==
    {[Turned(InitialPlayer, q, k) EXCEPT !.x = c[2] * PosDen + fx,
                                         !.y = c[1] * PosDen + fy] :
        c \in TestCells(map), fx \in TestFracs, fy \in TestFracs,
        q \in 0..3, k \in {0, MaxRot}}

\* Streams render is tried with.
TestStreams(e) ==
    IF e = "main" THEN {<<0>>} ELSE {<<0, 480, 999>>, <<480, 480, 480>>}

TestInit(rendering) ==
    /\ engine \in Engines
    /\ stream \in (IF rendering THEN TestStreams(engine) ELSE {<<0>>})
    /\ pc = "run"
    /\ rnd = 0
    /\ iter = 0
    /\ worldMap \in TestGrids
    /\ mapHeight = Cardinality(DOMAIN worldMap)
    /\ mapWidth = Cardinality(DOMAIN worldMap[0])
    /\ player \in TestPoses(worldMap)
    /\ keys = {}
    /\ thrown = FALSE
    /\ events = 0
    /\ last = NoEvent
    /\ automapVisible = FALSE
    /\ pressed = {}
    /\ RenderInit
    /\ PacInit

RenderNext ==
    \/ RenderBegin
    \/ RenderColumn
    \/ RenderEnd

RenderTestInit == TestInit(TRUE)

SpecRender == RenderTestInit /\ [][RenderNext]_vars

\* A key event delivered to a pose of TestPoses.
TestKeyDown(k) ==
    /\ events < MoveEvents
    /\ KeyDown(k)

MoveNext == \E k \in Keys : TestKeyDown(k)

MoveTestInit == TestInit(FALSE)

SpecMove == MoveTestInit /\ [][MoveNext]_vars

\* Frames and key events interleaved, from the sealed arena with the player
\* at the centre of a cell.
FrameInit ==
    /\ TestInit(FALSE)
    /\ worldMap = Arena(TestGridSize, {})
    /\ player = [InitialPlayer EXCEPT !.x = PosDen + PosDen \div 2,
                                      !.y = PosDen + PosDen \div 2]

\* The keys pressed between frames: those of Keys, Tab and Control.
FrameKeys == Keys \cup {"Tab", "Control"}

FrameKeyDown(k) ==
    /\ events < FrameEvents
    /\ KeyDown(k)

FrameKeyUp(k) ==
    /\ events < FrameEvents
    /\ KeyUp(k)

FrameNext ==
    \/ RenderNext
    \/ \E k \in FrameKeys : FrameKeyDown(k)
    \/ \E k \in FrameKeys : FrameKeyUp(k)

SpecFrames == FrameInit /\ [][FrameNext]_vars

\* The engine from its constructor on: the map is generated, then key events
\* and frames interleave.  The streams are the constant ones: every draw the
\* least value, every draw 480/1000 (a pillar on the start cell), every draw
\* the greatest value.
PlayStreams == {s \in Streams : \A i \in DOMAIN s : s[i] = s[1]}

PlayInit ==
    /\ GenInit
    /\ stream \in PlayStreams

PlayNext ==
    \/ GenNext
    \/ RenderNext
    \/ \E k \in Keys : FrameKeyDown(k)

SpecPlay == PlayInit /\ [][PlayNext]_vars

\* ------------------------------------------------------------------------
\* The Pac-Man game: key events and frames
\* ------------------------------------------------------------------------

PacKeys == {"ArrowUp", "ArrowDown", "ArrowLeft", "ArrowRight"}

doomVars == <<genVars, gameVars, renderVars>>

\* window 'keydown': this.keys.add(e.key); this.handleInput().  Key repeat
\* delivers keydown again while the key stays held.
PacKeyDown(k) ==
    /\ Cardinality(gameKeys \cup {k}) <= MaxHeld
    /\ gameKeys' = gameKeys \cup {k}
    /\ nextDirection' = HandleInput(gameKeys', nextDirection)
    /\ UNCHANGED <<position, direction, mouthOpen, mouthDirection, pellets, score, updates>>
    /\ UNCHANGED doomVars

\* window 'keyup': this.keys.delete(e.key)
PacKeyUp(k) ==
    /\ k \in gameKeys
    /\ gameKeys' = gameKeys \ {k}
    /\ UNCHANGED <<position, direction, nextDirection, mouthOpen, mouthDirection,
                   pellets, score, updates>>
    /\ UNCHANGED doomVars

\* Game.update(): player.update(map), removePellet at the player's position,
\* score += 10 when a pellet was removed, draw, request the next frame.
PacUpdate ==
    /\ updates < MaxUpdates
    /\ LET u == PlayerUpdate(position, direction, nextDirection)
           m == Mouth(mouthOpen, mouthDirection)
           r == RemovePellet(pellets, u.position.x, u.position.y)
       IN  /\ position' = u.position
           /\ direction' = u.direction
           /\ nextDirection' = u.nextDirection
           /\ mouthOpen' = m.mouthOpen
           /\ mouthDirection' = m.mouthDirection
           /\ pellets' = r.pellets
           /\ score' = IF r.removed THEN score + PelletScore ELSE score
    /\ updates' = updates + 1
    /\ UNCHANGED gameKeys
    /\ UNCHANGED doomVars

\* The Pac-Man game runs; the engine stays as constructed on the arena.
PacGameInit ==
    /\ FrameInit
    /\ engine = "main"

PacNext ==
    \/ PacUpdate
    \/ \E k \in PacKeys : PacKeyDown(k)
    \/ \E k \in PacKeys : PacKeyUp(k)

SpecPac == PacGameInit /\ [][PacNext]_vars

\* ------------------------------------------------------------------------
\* Properties
\* ------------------------------------------------------------------------

\* C1: once the outer walls are written, every border cell of the grid (row
\* 0, the last row, column 0, the last column) is non-zero, in every later
\* step of either generator and in the returned map.
C1_BorderSealed ==
    pc \notin {"fill", "walls"} =>
        \A i \in 0..(GridSize - 1) :
            /\ worldMap[0][i] # 0
            /\ worldMap[mapHeight - 1][i] # 0
            /\ worldMap[i][0] # 0
            /\ worldMap[i][mapWidth - 1] # 0

\* A returned map in which a random pillar landed on the cell nearest to the
\* bottom-right corner that the pillar loop can draw.
C1_Witness ==
    /\ pc = "run"
    /\ worldMap[mapHeight - 3][mapWidth - 3] # 0

\* C2: in the returned map the cell of the start pose (15.5, 15.5) is empty.
C2_StartCellEmpty ==
    pc = "run" => worldMap[Floor(InitialPlayer.y)][Floor(InitialPlayer.x)] = 0

\* C3: the DDA loop of a column ends, after at most mapWidth + mapHeight passes.
C3_DDATerminates ==
    ray.x >= 0 => ray.ended /\ ray.steps <= mapWidth + mapHeight

\* A ray that crossed the grid from corner to corner.
C3_Witness ==
    /\ ray.x >= 0
    /\ ray.ended
    /\ ray.steps = mapWidth + mapHeight - 1

\* C4: a ray that leaves the grid ends the DDA and its column is drawn
\* without an out-of-range read.
C4_OutsideRayDrawn ==
    (ray.x >= 0 /\ ray.outside) => ray.ended /\ ~ray.threw

\* C5: when the hit cell is not the player's cell, the perpendicular wall
\* distance is greater than 0.
C5_PerpPositive ==
    (ray.x >= 0 /\ <<ray.mapY, ray.mapX>> # <<Floor(player.y), Floor(player.x)>>)
        => ray.perp.num > 0 /\ ray.perp.den > 0

\* C6: two consecutive renders with nothing changed in between put the same image.
C6_RenderRepeatable ==
    (shown # NoImage /\ prevShown # NoImage) => shown = prevShown

\* C7: in an image put by render every pixel was written (alpha 255).
C7_FrameFullyWritten ==
    shown # NoImage => \A i \in DOMAIN shown : shown[i].a = 255

\* C8: direction and camera plane are perpendicular in every state.
C8_Perpendicular ==
    player.dirX * player.planeX + player.dirY * player.planeY = 0

\* A pose that was rotated and then moved.
C8_Witness ==
    /\ pc = "run"
    /\ player.den > 1
    /\ player.x # InitialPlayer.x
    /\ player.y # InitialPlayer.y

\* C9: the direction has length 1 and the camera plane length 0.66 in every state.
C9_LengthsKept ==
    /\ player.dirX * player.dirX + player.dirY * player.dirY = player.den * player.den
    /\ player.planeX * player.planeX + player.planeY * player.planeY
         = PlaneNum * PlaneNum * player.den * player.den

\* A rotation key has just turned the player away from the axes.
C9_Witness ==
    /\ pc = "run"
    /\ last.key \in RotKeys
    /\ last.p.den = 1
    /\ player.den = RotR

\* The movement intents (forward, back, strafe left, strafe right) that the
\* held keys make active, each named by its lower-case key.
Intents(held) ==
    {k \in {"w", "s", "a", "d"} :
        \/ k \in held
        \/ (k = "w" /\ "W" \in held) \/ (k = "s" /\ "S" \in held)
        \/ (k = "a" /\ "A" \in held) \/ (k = "d" /\ "D" \in held)}

\* The last event was a keydown whose handler ran one movement block, from
\* the pose last.p, and threw nothing.
OneIntent == last.key # "" /\ ~thrown /\ Cardinality(Intents(keys)) = 1
TheIntent == CHOOSE k \in Intents(keys) : TRUE
LastDX == MoveDX(last.p, TheIntent)
LastDY == MoveDY(last.p, TheIntent)

IsWall(row, cl) == CellDefined(worldMap, row, cl) /\ worldMap[row][cl] > 0
IsEmpty(row, cl) == CellIsZero(worldMap, row, cl)

\* The cell the X test reads; the cell the Y test would read in the column
\* the player stood in; and the cell the Y test reads in the column of x
\* after the X update.
XTargetRow == Floor(last.p.y)
XTargetCol == Floor(last.p.x + TestFactor(engine) * LastDX)
YTargetRow == Floor(last.p.y + TestFactor(engine) * LastDY)
YTargetColBefore == Floor(last.p.x)
YTargetColAfter == Floor(player.x)

XCandidateCol == Floor(last.p.x + LastDX)
YCandidateRow == Floor(last.p.y + LastDY)

\* C11: the X displacement of a movement block is applied exactly when the
\* cell of the candidate x, in the player's row, is empty, and the Y
\* displacement exactly when the cell of the candidate y, in the player's
\* column, is empty, whatever happened on the other axis.
C11_PerAxis ==
    OneIntent =>
        /\ LastDX # 0 =>
              (player.x = last.p.x + LastDX
                 <=> IsEmpty(Floor(last.p.y), XCandidateCol))
        /\ LastDY # 0 =>
              (player.y = last.p.y + LastDY
                 <=> IsEmpty(YCandidateRow, Floor(last.p.x)))

\* The last event was a keydown whose handler entered one movement block
\* (it may have thrown).
OneIntentEntered == last.key # "" /\ Cardinality(Intents(keys)) = 1

InRows(row) == row >= 0 /\ row < mapHeight
InCols(cl) == cl >= 0 /\ cl < mapWidth

\* C12: a movement block reads worldMap only at rows and columns of the grid,
\* throws nothing, and leaves a coordinate unchanged when the target cell of
\* its axis lies outside the grid.
C12_OutsideRejected ==
    OneIntentEntered =>
        /\ ~thrown
        /\ InRows(XTargetRow) /\ InCols(XTargetCol)
        /\ InRows(YTargetRow) /\ InCols(YTargetColAfter)
        /\ ~(InRows(XTargetRow) /\ InCols(XTargetCol)) => player.x = last.p.x
        /\ ~(InRows(YTargetRow) /\ InCols(YTargetColAfter)) => player.y = last.p.y

\* The pose of the 3 x 3 scenario: the player at (1.5, 1.5) facing (0, -1),
\* and the column whose cameraX is 0 has been processed.
ScenarioRay ==
    /\ worldMap = ScenarioGrid
    /\ player.x = PosDen + PosDen \div 2
    /\ player.y = PosDen + PosDen \div 2
    /\ player.den = 1 /\ player.dirX = 0 /\ player.dirY = -1
    /\ ray.x >= 0
    /\ 2 * ray.x = width

\* C13: in the 3 x 3 scenario the ray of cameraX = 0 ends the DDA at map cell
\* (1, 0) with side 1 and perpendicular wall distance 0.5.
C13_Scenario ==
    ScenarioRay =>
        /\ ray.ended
        /\ ray.mapX = 1 /\ ray.mapY = 0
        /\ ray.side = 1
        /\ ray.perp.num > 0
        /\ 2 * ray.perp.num = ray.perp.den

\* The centre column of the 3 x 3 scenario has been drawn.
C13_Witness == ScenarioRay /\ pc = "render" /\ 2 * col = width + 2

\* C14: the drawStart and drawEnd of a column are whole rows of the screen:
\* neither is fractional (an odd count of half rows) or infinite, and both
\* lie in 0 .. height - 1.
C14_WholeRows ==
    ray.x >= 0 =>
        /\ ray.lineHeight.inf # -1
        /\ ray.drawStart2 % 2 = 0
        /\ ray.drawEnd2 % 2 = 0
        /\ ray.drawStart2 >= 0 /\ ray.drawStart2 <= 2 * (height - 1)
        /\ ray.drawEnd2 >= 0 /\ ray.drawEnd2 <= 2 * (height - 1)

\* A column whose ray direction has a component that is exactly 0.
AxisRay == ray.x >= 0 /\ (ray.rayX = 0 \/ ray.rayY = 0)

\* C15: for a ray with a zero component the DDA never steps along that axis
\* (every pass steps along the other one), no side distance is NaN, and every
\* pixel write of the column uses an index of the image.
C15_AxisRay ==
    AxisRay =>
        /\ ray.rayX = 0 => (ray.mapX = Floor(player.x) /\ ray.side = 1
                             /\ ray.steps = Abs(ray.mapY - Floor(player.y)))
        /\ ray.rayY = 0 => (ray.mapY = Floor(player.y) /\ ray.side = 0
                             /\ ray.steps = Abs(ray.mapX - Floor(player.x)))
        /\ ~ray.sideNaN
        /\ ~ray.invalid

\* C16: for every column drawn, wallX lies in [0, 1) and texX lies in
\* 0 .. texture width - 1.
C16_TexXInRange ==
    (ray.x >= 0 /\ ~ray.threw) =>
        /\ ray.wallX.num >= 0
        /\ ray.wallX.num < ray.wallX.den
        /\ ray.texX >= 0
        /\ ray.texX < TexSize

\* A column whose ray met a wall at a distance of a cell or more, off the
\* edge of the wall's face, was drawn.
C16_Witness ==
    /\ ray.x >= 0 /\ ~ray.threw /\ ~ray.hung
    /\ ray.perp.num >= ray.perp.den
    /\ ray.texX > 0

\* Positive distances, as num / den.
TestDists == {[num |-> n, den |-> DistSteps, neg |-> FALSE] : n \in 1..(4 * DistSteps)}

\* a <= b for distances with positive denominators.
DistLeq(a, b) == a.num * b.den <= b.num * a.den

\* The column processed last met its wall at a positive distance.
PositivePerp == ray.x >= 0 /\ ray.perp.num > 0 /\ ray.perp.den > 0

\* C17: lineHeight = floor(height / perpWallDist) never increases with the
\* distance: a distance at or beyond the column's gives a lineHeight that is
\* no greater, a distance at or before it one that is no smaller.
C17_HeightMonotone ==
    PositivePerp =>
        \A q \in TestDists :
            /\ DistLeq(ray.perp, q) => LineHeight(q, height).v <= ray.lineHeight.v
            /\ DistLeq(q, ray.perp) => LineHeight(q, height).v >= ray.lineHeight.v

\* A column whose wall is nearer than some distance of TestDists and strictly
\* taller than a wall at that distance, and farther than another and strictly
\* lower.
C17_Witness ==
    /\ PositivePerp
    /\ \E q \in TestDists :
          DistLeq(ray.perp, q) /\ LineHeight(q, height).v < ray.lineHeight.v
    /\ \E q \in TestDists :
          DistLeq(q, ray.perp) /\ LineHeight(q, height).v > ray.lineHeight.v

\* C18: while a render pass is in progress the pose and the key table do not
\* change (no handler runs), and the pass goes on column by column to its end:
\* no other pass starts before it has ended.
C18_RenderAtomic ==
    [][pc = "render" =>
          /\ player' = player
          /\ keys' = keys /\ events' = events
          /\ pc' = "render" => col' = col + 1
          /\ pc' = "run" => (col = width /\ shown' = data')]_vars

\* A render pass is in progress, after a key event moved the player, and a
\* frame was shown before that event.
C18_Witness ==
    /\ pc = "render"
    /\ col > 0
    /\ events > 0
    /\ player.x # PosDen + PosDen \div 2
    /\ shown # NoImage

\* The engine is past its constructor: waiting for events, rendering, or
\* stopped by an exception or by a loop that does not end.
Constructed == pc \in {"run", "render", "crashed", "hung"}

\* C19: once the constructor has generated the map, no step of the engine
\* (keydown with its movement, rotation, automap, weapon and fire blocks,
\* keyup, the start of a frame, a render column, the end of a frame with its
\* map drawing and HUD update) changes worldMap.
C19_MapFrozen == [][Constructed => worldMap' = worldMap]_vars

\* A shot has been fired and a frame has been shown after it.
C19_Witness ==
    /\ player.ammo < InitialAmmo
    /\ shown # NoImage
    /\ pc = "run"
    /\ worldMap = Arena(TestGridSize, {})

\* Two player records have the same position.
SamePosition(p, q) == p.x = q.x /\ p.y = q.y

\* Two player records have the same direction and the same camera plane
\* (components are numerators over den).
SameHeading(p, q) ==
    /\ p.dirX * q.den = q.dirX * p.den
    /\ p.dirY * q.den = q.dirY * p.den
    /\ p.planeX * q.den = q.planeX * p.den
    /\ p.planeY * q.den = q.planeY * p.den

\* C20: a keydown of a movement key leaves direction and camera plane
\* unchanged, a keydown of a rotation key leaves the position unchanged, and
\* every other step (a keydown of a weapon key, of Control or of Tab, a
\* keyup, the start of a frame, a render column, the end of a frame) leaves
\* position, direction and camera plane unchanged.
C20_PoseFrame ==
    [][LET keydown == events' = events + 1 /\ last'.key # ""
           moving == keydown /\ last'.key \in MoveKeys
           turning == keydown /\ last'.key \in RotKeys
       IN  /\ moving => SameHeading(player, player')
           /\ turning => SamePosition(player, player')
           /\ ~(moving \/ turning) =>
                 SamePosition(player, player') /\ SameHeading(player, player')]_vars

\* C21: every pixel written while render processes screen column x (wall
\* strip, floor, ceiling) is a pixel of column x, whatever the parity of
\* lineHeight: its pixel number is x modulo the width.
C21_OwnColumn ==
    ray # NoRay => \A u \in ray.wr : u.i % width = ray.x

\* C22: movement and rotation are applied per frame: when a frame callback
\* returns, the pose is the pose at its start advanced by one step of every
\* movement and rotation key held, also when no key event arrived since the
\* frame before.
C22_StepPerFrame ==
    [][(pc = "render" /\ pc' = "run") =>
          LET after == Handler(framePose, worldMap, keys, "", engine).p
          IN  SamePosition(player', after) /\ SameHeading(player', after)]_vars

\* The entries of the key table whose physical key is down.
HeldDown(table, down) == {k \in table : Physical(k) \in down}

\* C23: an intent is active only while its key is held: every keydown moves
\* and turns the player as the handler does with the keys that are
\* physically down after the event, so that a key that has gone up (under
\* either of its names) is applied by no later keydown of another key.
C23_OnlyWhileHeld ==
    [][(events' = events + 1 /\ last'.key # "" /\ ~thrown') =>
          LET held == Handler(player, worldMap, HeldDown(keys', pressed'),
                              last'.key, engine).p
          IN  SamePosition(player', held) /\ SameHeading(player', held)]_vars

\* Every border cell of the grid is a wall.
Sealed(map) ==
    \A y \in DOMAIN map : \A x \in DOMAIN map[y] :
        IsBorder(y, x, Cardinality(DOMAIN map)) => map[y][x] # 0

\* The cell containing the player q is an empty cell off the border.
InEmptyInterior(q) ==
    /\ CellIsZero(worldMap, Floor(q.y), Floor(q.x))
    /\ Floor(q.y) > 0 /\ Floor(q.y) < mapHeight - 1
    /\ Floor(q.x) > 0 /\ Floor(q.x) < mapWidth - 1

C25_HitInsideGrid ==
    ray # NoRay =>
        /\ ray.ended /\ ~ray.outside /\ ~ray.threw
        /\ InGrid(ray.mapX, ray.mapY, mapWidth, mapHeight)
        /\ worldMap[ray.mapY][ray.mapX] > 0
        /\ (worldMap[ray.mapY][ray.mapX] - 1) % NumTextures \in 0..(NumTextures - 1)

\* A column was processed on a generated map after the player had walked and
\* turned, and its ray crossed several cells before it hit a wall.
C25_Witness ==
    /\ ray # NoRay /\ mapWidth = GridSize
    /\ events > 1 /\ player.den > 1 /\ player.x # InitialPlayer.x
    /\ ray.steps > 2 /\ ray.ended /\ ~ray.outside

\* What the handler of part_001 makes of the last keydown, from the same
\* player, on the same map and with the same keys held.
Part1Result == Handler(last.p, worldMap, keys, last.key, "part1").p

\* The last keydown was handled by main.ts with one movement intent held,
\* from a player in an empty cell.
MainMoved ==
    /\ engine = "main" /\ OneIntentEntered
    /\ CellIsZero(worldMap, Floor(last.p.y), Floor(last.p.x))

\* C26: main.ts is at least as restrictive as part_001: from the same player
\* in an empty cell, on the same map and for the same movement key, an axis
\* that main.ts moves the player on is moved by part_001 too, to the same
\* coordinate.
C26_MainMoreRestrictive ==
    MainMoved =>
        /\ player.x # last.p.x => Part1Result.x = player.x
        /\ player.y # last.p.y => Part1Result.y = player.y

\* main.ts refused the X step (a wall at twice the step) that part_001
\* takes, and both took the Y step.
C26_Witness ==
    /\ MainMoved
    /\ player.x = last.p.x /\ Part1Result.x # last.p.x
    /\ player.y # last.p.y /\ Part1Result.y = player.y

\* C27: in the Pac-Man game the score is 10 times the number of pellets
\* removed since the map was created; a step removes at most one pellet, only
\* the pellet of the cell the player is in after the step, adds 10 exactly
\* when it removes one, and never lowers the score.
C27_ScoreCountsPellets ==
    /\ [](score = PelletScore * (Cardinality(CreatePellets) - Cardinality(pellets)))
    /\ [][LET cell == CellOf(position'.x, position'.y)
          IN  \/ pellets' = pellets /\ score' = score
              \/ /\ cell \in pellets
                 /\ pellets' = pellets \ {cell}
                 /\ score' = score + PelletScore]_vars

\* Pellets of several cells were eaten, and more updates ran than pellets
\* were eaten.
C27_Witness ==
    /\ score >= 2 * PelletScore
    /\ updates * PelletScore > score
    /\ CellOf(position.x, position.y) \notin pellets
    /\ CellOf(position.x, position.y) \in CreatePellets

\* The cell containing the point pos is a cell of some wall of the map.
InWall(pos) == IsWallAt(CellOf(pos.x, pos.y)[1], CellOf(pos.x, pos.y)[2], Walls)

\* The pixels inside the outer walls: 20 <= x < 580 and 20 <= y < 580.
InsideOuterWalls(pos) ==
    /\ pos.x >= CellSize /\ pos.x < CellSize * (PelletLast + 1)
    /\ pos.y >= CellSize /\ pos.y < CellSize * (PelletLast + 1)

\* C28: in the Pac-Man game the cell containing the player's position is
\* never a wall cell and the position stays inside the outer walls; an update
\* whose step in the current direction would end in a wall cell leaves the
\* position unchanged.
C28_NeverInWall ==
    /\ [](~InWall(position) /\ InsideOuterWalls(position))
    /\ [][(updates' = updates + 1 /\ InWall(MoveInDirection(position, direction')))
              => position' = position]_vars

\* An update was refused by the wall above the start: the player stands
\* against a wall, facing it, and has moved less than its updates allow.
C28_Witness ==
    /\ InWall(MoveInDirection(position, direction))
    /\ updates > 0
    /\ (StartX - position.x) * (StartX - position.x)
         + (StartY - position.y) * (StartY - position.y)
         < (Speed * updates) * (Speed * updates)
    /\ position.x = StartX /\ StartY - position.y = Speed * (updates - 1)

\* An update runs while a direction is requested, and one step in the
\* requested direction ends in a wall cell (Blocked) or does not (Free).
RequestBlocked ==
    /\ updates' = updates + 1 /\ nextDirection # "null"
    /\ InWall(MoveInDirection(position, nextDirection))

RequestFree ==
    /\ updates' = updates + 1 /\ nextDirection # "null"
    /\ ~InWall(MoveInDirection(position, nextDirection))

\* C29: a requested direction is buffered: the current direction changes only
\* in an update, only to the requested direction and only when one step in
\* it from the current position is collision-free, and the request is
\* cleared in that update; while that step is blocked an update leaves the
\* current direction and the request as they are.
C29_Buffered ==
    [][/\ direction' # direction => (RequestFree /\ direction' = nextDirection)
       /\ RequestFree => (direction' = nextDirection /\ nextDirection' = "null")
       /\ RequestBlocked => (direction' = direction /\ nextDirection' = nextDirection)]_vars

\* The player runs along the wall above the start with the request to turn
\* into it still buffered.
C29_Witness ==
    /\ nextDirection = "up" /\ direction \in {"left", "right"}
    /\ InWall(MoveInDirection(position, nextDirection))
    /\ position.x # StartX
    /\ updates > 0

====
